---- MODULE Spec2Model ----
(***************************************************************************)
(* city-bot: collectors.py.  The recency filter (_is_recent), the topic    *)
(* fingerprint (_topic_key), the per-city rolling caches (SEEN_IDS,        *)
(* TOPICS_SEEN) and the aggregation pipeline (get_latest_items), as a      *)
(* state machine whose steps are the stretches of code between awaits.     *)
(***************************************************************************)
EXTENDS Integers, Sequences, FiniteSets, TLC

(***************************************************************************)
(* Program constants                                                       *)
(***************************************************************************)
\* cutoff = now - 86400 : the cache window, in seconds
WINDOW == 86400
\* _is_recent(entry, tz, hours=24)
HOURS == 24
\* timedelta(hours=hours), in seconds per hour
HOUR == 3600
\* time.gmtime(0), the sort key of an entry without published_parsed
EPOCH == 0
\* title.lower()[:64]
KEYLEN == 64
\* get_latest_items(city_key, cfg, limit=7)
DEFAULT_LIMIT == 7
\* utils.tiny: if len(url) < 30: return url
MINLEN == 30
\* utils.tiny(url, retries=3, timeout=2)
DEFAULT_RETRIES == 3
\* utils.tiny: if resp.status == 200
STATUS_OK == 200

(***************************************************************************)
(* Bounds of the model                                                     *)
(***************************************************************************)
\* the clock reading of the initial state
T0 == 200000
\* how many times the clock advances
MaxTicks == 1
\* how many get_latest_items calls are started
MaxCalls == 2
\* the largest limit argument tried below the default
MaxLimit == 1
\* how many embedding calls fail
MaxEmbedFailures == 1
\* the largest retries argument of tiny tried below the default
MaxRetries == 2

(***************************************************************************)
(* Time zones.  A zone is its UTC offset as a function of the instant;     *)
(* "Madrid" leaves summer time (+2h -> +1h) at the instant TR.             *)
(***************************************************************************)
TR == T0 + 1

Zones == {"UTC", "Madrid"}

UtcOffset(zone, t) ==
    IF zone = "UTC" THEN 0
    ELSE IF t < TR THEN 2 * HOUR ELSE HOUR

\* dt.fromtimestamp(t, tz) and dt.now(tz): the wall-clock reading in the zone
Wall(zone, t) == t + UtcOffset(zone, t)

\* the standard-time UTC offset of the host's local zone, which time.mktime uses
HostOffsets == {0, HOUR}


(***************************************************************************)
(* Feed entries.  An entry is what feedparser hands over: id, link, title, *)
(* summary, published_parsed and updated_parsed (UTC, as epoch seconds in  *)
(* a one-element sequence, or <<>> when the field is missing).  emb is the *)
(* key str(hash(embedding[:64])) that the embedding service yields for the *)
(* entry's title and summary when the call succeeds.  Strings that the     *)
(* code slices or lowercases are sequences of characters.                  *)
(***************************************************************************)
Feeds == {"f1", "f2", "f3"}

Entry(id, link, title, summary, pub, upd, emb) ==
    [id |-> id, link |-> link, title |-> title, summary |-> summary,
     published_parsed |-> pub, updated_parsed |-> upd, emb |-> emb]

\* None, as the value of a field: no title (a sequence of single characters)
\* equals it
None == <<"None">>

\* a1 and b1 share an identity and a publish time (stamped a second ahead of
\* the first clock reading); b2 is a1's story under another identity; a2 has
\* a link only; c1 has neither id nor link and no published_parsed; c2 has
\* no timestamp at all.  n1 carries "title": None, and n2 has no title key and
\* "summary": None, which the f-string of _topic_key formats as the text None.
ENTRY ==
    [a1 |-> Entry("x", "http://a/1", <<"F", "i", "r", "e">>, "s1", <<T0 + 1>>, <<>>, <<"1">>),
     a2 |-> Entry("", "http://a/2", <<"R", "a", "i", "n">>, "s2", <<T0 - WINDOW>>, <<>>, <<"2">>),
     b1 |-> Entry("x", "http://b/1", <<"B", "l", "a", "z", "e">>, "s3", <<T0 + 1>>, <<>>, <<"3">>),
     b2 |-> Entry("y", "", <<"F", "i", "r", "e">>, "s1", <<T0 - 2 * HOUR>>, <<T0 - HOUR>>, <<"1">>),
     c1 |-> Entry("", "", <<"S", "n", "o", "w">>, "s4", <<>>, <<T0 - HOUR>>, <<"4">>),
     c2 |-> Entry("z", "", <<"F", "o", "g">>, "s5", <<>>, <<>>, <<"5">>),
     n1 |-> Entry("n", "", None, "s6", <<T0>>, <<>>, <<"6">>),
     n2 |-> Entry("m", "", <<>>, "None", <<T0 - HOUR>>, <<>>, <<"7">>)]

EntryNames == DOMAIN ENTRY

\* what one fetch of a feed can return (feedparser.parse(raw).entries)
FeedResults(u) ==
    CASE u = "f1" -> {<<"a1", "a2">>}
      [] u = "f2" -> {<<"b1", "b2">>}
      [] OTHER    -> {<<"c1", "c2">>}

\* the same feeds on a day when they carry the entries without a title
UntitledResults(u) ==
    CASE u = "f1" -> {<<"a1", "n1">>}
      [] u = "f2" -> {<<"n2">>}
      [] OTHER    -> {<<"c1">>}

Channels == {"A", "B"}

\* the cfg dict of each city: tz, feeds, lang
Config ==
    [A |-> [tz |-> "UTC", feeds |-> {"f1", "f2"}, lang |-> "en"],
     B |-> [tz |-> "Madrid", feeds |-> {"f1", "f3"}, lang |-> "es"]]

(***************************************************************************)
(* Helpers                                                                 *)
(***************************************************************************)
\* a or b, for values whose falsy form is the empty sequence or string
Or(a, b, falsy) == IF a # falsy THEN a ELSE b

\* time.mktime(tm): tm, which feedparser gives in UTC with tm_isdst = 0, read
\* as the host's local standard time
Mktime(tm, host) == tm[1] - host

\* _is_recent(entry, tz, hours) evaluated at the instant t on a host whose
\* local offset is host.  Both datetimes carry the same tzinfo object, so
\* their difference is the difference of the wall-clock readings.
IsRecent(entry, zone, hours, t, host) ==
    LET tm == Or(entry.published_parsed, entry.updated_parsed, <<>>)
    IN  IF tm = <<>> THEN FALSE
        ELSE LET entry_dt == Wall(zone, Mktime(tm, host))
             IN  Wall(zone, t) - entry_dt <= hours * HOUR

LowerChar(ch) ==
    CASE ch = "F" -> "f" [] ch = "R" -> "r" [] ch = "B" -> "b"
      [] ch = "S" -> "s" [] OTHER -> ch

Lower(s) == [i \in 1..Len(s) |-> LowerChar(s[i])]

Prefix(s, n) == SubSeq(s, 1, IF Len(s) < n THEN Len(s) ELSE n)

\* as TopicKey, with the fallback taken from the title as it stands
TopicKeyCaseSensitive(entry, embed_ok) ==
    IF embed_ok THEN entry.emb ELSE Prefix(entry.title, KEYLEN)

\* _topic_key(entry): the embedding digest, or on any failure of the
\* embedding call the lowercased title cut to 64 characters
TopicKey(entry, embed_ok) ==
    IF embed_ok THEN entry.emb ELSE Prefix(Lower(entry.title), KEYLEN)

\* line 47 runs inside the except clause: title.lower() on a title that is
\* None raises AttributeError, which nothing in _topic_key catches
KeyRaises(entry, embed_ok) == ~embed_ok /\ entry.title = None

\* one call of _topic_key: the key returned, or the exception raised
TopicKeyCall(entry, embed_ok) ==
    IF KeyRaises(entry, embed_ok) THEN [raised |-> TRUE]
    ELSE [raised |-> FALSE, key |-> TopicKey(entry, embed_ok)]

\* as Uid, with the title standing in when there is neither id nor link
UidOrTitle(entry) ==
    IF Or(entry.id, entry.link, "") # "" THEN Or(entry.id, entry.link, "")
    ELSE "title"

\* uid = e.get("id") or e.get("link")
Uid(entry) == Or(entry.id, entry.link, "")

\* as SortKey, with updated_parsed standing in for a missing published_parsed
SortKeyOrUpdated(entry) ==
    LET tm == Or(entry.published_parsed, entry.updated_parsed, <<>>)
    IN  IF tm # <<>> THEN tm[1] ELSE EPOCH

\* the sort key: e.get("published_parsed") or time.gmtime(0)
SortKey(entry) ==
    IF entry.published_parsed # <<>> THEN entry.published_parsed[1] ELSE EPOCH

\* list.sort(key=..., reverse=True) is stable: x goes after every element
\* whose key is >= its own
\* as InsertDesc, with the order of the sort turned round
RECURSIVE InsertAsc(_, _)
InsertAsc(x, s) ==
    IF s = <<>> THEN <<x>>
    ELSE IF SortKey(ENTRY[Head(s)]) <= SortKey(ENTRY[x])
         THEN <<Head(s)>> \o InsertAsc(x, Tail(s))
         ELSE <<x>> \o s

RECURSIVE InsertDesc(_, _)
InsertDesc(x, s) ==
    IF s = <<>> THEN <<x>>
    ELSE IF SortKey(ENTRY[Head(s)]) >= SortKey(ENTRY[x])
         THEN <<Head(s)>> \o InsertDesc(x, Tail(s))
         ELSE <<x>> \o s

RECURSIVE SortEntries(_)
SortEntries(s) ==
    IF s = <<>> THEN <<>>
    ELSE InsertDesc(s[Len(s)], SortEntries(SubSeq(s, 1, Len(s) - 1)))

\* as Prune, keeping the expired records instead of the live ones
PruneKeepsExpired(records, cutoff) == SelectSeq(records, LAMBDA r : r[1] < cutoff)

\* as Prune, dropping the record whose timestamp is the cutoff itself
PruneStrict(records, cutoff) == SelectSeq(records, LAMBDA r : r[1] > cutoff)

\* as Prune, with the list started afresh at every call
PruneEmpties(records, cutoff) == <<>>

\* as CityRecords, with one list shared by every city
CityRecordsShared(cache, c) == cache["A"]

\* SEEN_IDS.get(city_key, []), TOPICS_SEEN.get(city_key, [])
CityRecords(cache, c) == cache[c]

\* [(ts, x) for ts, x in records if ts >= cutoff]
Prune(records, cutoff) == SelectSeq(records, LAMBDA r : r[1] >= cutoff)

\* set(x for ts, x in records)
LoadSeen(records) == {records[i][2] : i \in 1..Len(records)}


(***************************************************************************)
(* State                                                                   *)
(***************************************************************************)
Slots == {1, 2}

VARIABLES
    clock,          \* time.time(): the real time, in seconds
    ticks,          \* how often the clock has advanced
    host,           \* the host's local UTC offset (fixed for the process)
    SEEN_IDS,       \* city -> list of (timestamp, uid)
    TOPICS_SEEN,    \* city -> list of (timestamp, topic_key)
    pc,             \* per call: where get_latest_items stands
    city_key,       \* per call: its arguments ...
    limit,
    now,            \* ... and its locals
    ids_seen,
    topics_seen,
    pending,        \* the fetch tasks not yet completed
    all_entries,
    idx,            \* the position of the for loop in all_entries
    fresh,
    result,         \* the returned list, once the call is done
    got,            \* history: what each completed fetch contributed
    keys,           \* history: the topic key each examined entry was given
    accepted,       \* history: every acceptance, as [c, n, t, e, uid, topic]
    ncalls,         \* how many calls have been started
    nfailed,        \* how many embedding calls have failed
    callno,         \* per call: its number
    probe,          \* the last _is_recent evaluation of the recency probe
    kprobe,         \* the last pair of _topic_key evaluations of the key probe
    tiny            \* the tiny(url, retries) call in progress, or the last one

callvars == <<pc, city_key, limit, now, ids_seen, topics_seen, pending,
              all_entries, idx, fresh, result, got, keys, callno>>

\* what the helpers probed on their own leave behind
probes == <<probe, kprobe, tiny>>

vars == <<clock, ticks, host, SEEN_IDS, TOPICS_SEEN, callvars, accepted,
          ncalls, nfailed, probes>>

NoProbe == [set |-> FALSE]

\* tiny has not been called
NoTiny == [pc |-> "idle"]

Init ==
    /\ clock = T0
    /\ ticks = 0
    /\ host \in HostOffsets
    /\ SEEN_IDS = [c \in Channels |-> <<>>]
    /\ TOPICS_SEEN = [c \in Channels |-> <<>>]
    /\ pc = [k \in Slots |-> "idle"]
    /\ city_key = [k \in Slots |-> "A"]
    /\ limit = [k \in Slots |-> 0]
    /\ now = [k \in Slots |-> 0]
    /\ ids_seen = [k \in Slots |-> {}]
    /\ topics_seen = [k \in Slots |-> {}]
    /\ pending = [k \in Slots |-> {}]
    /\ all_entries = [k \in Slots |-> <<>>]
    /\ idx = [k \in Slots |-> 1]
    /\ fresh = [k \in Slots |-> <<>>]
    /\ result = [k \in Slots |-> <<>>]
    /\ got = [k \in Slots |-> <<>>]
    /\ keys = [k \in Slots |-> <<>>]
    /\ callno = [k \in Slots |-> 0]
    /\ accepted = {}
    /\ ncalls = 0
    /\ nfailed = 0
    /\ probe = NoProbe
    /\ kprobe = NoProbe
    /\ tiny = NoTiny

(***************************************************************************)
(* The clock                                                               *)
(***************************************************************************)
\* Time passes between calls, by d seconds.
Advance(d) ==
    /\ \A k \in Slots : pc[k] = "idle"
    /\ ticks < MaxTicks
    /\ clock' = clock + d
    /\ ticks' = ticks + 1
    /\ UNCHANGED <<host, SEEN_IDS, TOPICS_SEEN, callvars, accepted, ncalls, nfailed, probes>>


(***************************************************************************)
(* get_latest_items(city_key, cfg, limit), one action per stretch of code  *)
(* between two awaits.  cfg is Config[city_key].                           *)
(***************************************************************************)
\* as Record, with the entry recorded before it is tested
RecordAlways(cache, c, skip, r) == [cache EXCEPT ![c] = Append(@, r)]

\* lines 86-91: the city's list after an iteration; skip tells that nothing
\* is appended (the entry is a duplicate, or the record is an identity and
\* the entry has none)
Record(cache, c, skip, r) ==
    IF skip THEN cache ELSE [cache EXCEPT ![c] = Append(@, r)]

\* as LastTask, with the loop of line 74 left at the first completion
LastTaskAny(pend, u) == TRUE

\* the for loop of line 74 ends with the task u when no other is pending
LastTask(pend, u) == pend = {u}

\* if (uid and uid in ids_seen) or topic in topics_seen: continue
IsDuplicate(uid, topic, ids, topics) ==
    (uid # "" /\ uid \in ids) \/ topic \in topics

\* if len(fresh) >= limit: break
LimitReached(fr, lim) == Len(fr) >= lim

\* [await summarise_article(e, lang) for e in fresh]: the summariser is an
\* opaque total function of the entry and the language
Summaries(fr, lang) == [i \in 1..Len(fr) |-> <<fr[i], lang>>]

\* the entries of one fetch result that pass _is_recent when it completes
RecentOf(r, zone, t, h) ==
    SelectSeq(r, LAMBDA e : IsRecent(ENTRY[e], zone, HOURS, t, h))

\* where the call stands once the for loop over all_entries is left, or
\* never entered: with nothing accepted the comprehension awaits nothing
AfterLoop(fr) == IF fr = <<>> THEN "done" ELSE "summarise"

\* Lines 59-72: read the clock, prune the city's two lists, load the seen
\* sets, create the fetch tasks.  Nothing is awaited before line 75; with
\* no feeds the sort and both loops are passed without awaiting anything.
Start(k, c, lim) ==
    /\ pc[k] = "idle"
    /\ ncalls < MaxCalls
    /\ LET cutoff == clock - WINDOW
           ids == Prune(CityRecords(SEEN_IDS, c), cutoff)
           topics == Prune(CityRecords(TOPICS_SEEN, c), cutoff)
       IN  /\ SEEN_IDS' = [SEEN_IDS EXCEPT ![c] = ids]
           /\ TOPICS_SEEN' = [TOPICS_SEEN EXCEPT ![c] = topics]
           /\ ids_seen' = [ids_seen EXCEPT ![k] = LoadSeen(ids)]
           /\ topics_seen' = [topics_seen EXCEPT ![k] = LoadSeen(topics)]
    /\ city_key' = [city_key EXCEPT ![k] = c]
    /\ limit' = [limit EXCEPT ![k] = lim]
    /\ now' = [now EXCEPT ![k] = clock]
    /\ pending' = [pending EXCEPT ![k] = Config[c].feeds]
    /\ pc' = [pc EXCEPT ![k] = IF Config[c].feeds = {} THEN "done" ELSE "fetching"]
    /\ all_entries' = [all_entries EXCEPT ![k] = <<>>]
    /\ idx' = [idx EXCEPT ![k] = 1]
    /\ fresh' = [fresh EXCEPT ![k] = <<>>]
    /\ result' = [result EXCEPT ![k] = <<>>]
    /\ got' = [got EXCEPT ![k] = <<>>]
    /\ keys' = [keys EXCEPT ![k] = <<>>]
    /\ ncalls' = ncalls + 1
    /\ callno' = [callno EXCEPT ![k] = ncalls + 1]
    /\ UNCHANGED <<clock, ticks, host, accepted, nfailed, probes>>

\* Line 75, a fetch task completes with the entries r: those that are recent
\* now are appended.  After the last task, lines 77-80 sort the list and the
\* for loop awaits the topic key of its first entry.
FetchDone(k, u, r) ==
    /\ pc[k] = "fetching"
    /\ u \in pending[k]
    /\ LET recent == RecentOf(r, Config[city_key[k]].tz, clock, host)
           merged == all_entries[k] \o recent
           last == LastTask(pending[k], u)
       IN  /\ all_entries' = [all_entries EXCEPT
                                ![k] = IF last THEN SortEntries(merged) ELSE merged]
           /\ got' = [got EXCEPT ![k] = Append(@, <<u, recent>>)]
           /\ pc' = [pc EXCEPT ![k] = IF ~last THEN "fetching"
                                      ELSE IF merged = <<>> THEN AfterLoop(<<>>)
                                      ELSE "dedup"]
    /\ pending' = [pending EXCEPT ![k] = @ \ {u}]
    /\ UNCHANGED <<clock, ticks, host, SEEN_IDS, TOPICS_SEEN, city_key, limit,
                   now, ids_seen, topics_seen, idx, fresh, result, keys,
                   callno, accepted, ncalls, nfailed, probes>>

\* Line 75, a fetch task ends in an exception (transport, timeout, parse):
\* fetch_feed catches nothing and neither does get_latest_items.  The frame
\* unwinds: the entries gathered so far and the other tasks are dropped.
FetchFail(k, u) ==
    /\ pc[k] = "fetching"
    /\ u \in pending[k]
    /\ pc' = [pc EXCEPT ![k] = "raised"]
    /\ pending' = [pending EXCEPT ![k] = {}]
    /\ all_entries' = [all_entries EXCEPT ![k] = <<>>]
    /\ got' = [got EXCEPT ![k] = <<>>]
    /\ UNCHANGED <<clock, ticks, host, SEEN_IDS, TOPICS_SEEN, city_key, limit,
                   now, ids_seen, topics_seen, idx, fresh, result, keys,
                   callno, accepted, ncalls, nfailed, probes>>

\* Lines 83-93, one iteration: _topic_key returns (embed_ok tells whether the
\* embedding call succeeded), the entry is skipped or accepted and recorded,
\* and the loop goes on to the next await or ends.  When _topic_key raises,
\* line 85 lets the exception through and the call ends with it; what the
\* call has recorded so far stays in the lists.
DedupStep(k, embed_ok) ==
    /\ pc[k] = "dedup"
    /\ embed_ok \/ nfailed < MaxEmbedFailures
    /\ nfailed' = IF embed_ok THEN nfailed ELSE nfailed + 1
    /\ LET e == all_entries[k][idx[k]]
           c == city_key[k]
           uid == Uid(ENTRY[e])
           topic == TopicKey(ENTRY[e], embed_ok)
           dup == IsDuplicate(uid, topic, ids_seen[k], topics_seen[k])
           fr == IF dup THEN fresh[k] ELSE Append(fresh[k], e)
           over == (~dup /\ LimitReached(fr, limit[k]))
                       \/ idx[k] + 1 > Len(all_entries[k])
       IN  IF KeyRaises(ENTRY[e], embed_ok)
           THEN /\ pc' = [pc EXCEPT ![k] = "key_raised"]
                /\ UNCHANGED <<keys, fresh, SEEN_IDS, TOPICS_SEEN, accepted, idx>>
           ELSE /\ keys' = [keys EXCEPT ![k] = Append(@, topic)]
                /\ fresh' = [fresh EXCEPT ![k] = fr]
                /\ SEEN_IDS' = Record(SEEN_IDS, c, dup \/ uid = "", <<now[k], uid>>)
                /\ TOPICS_SEEN' = Record(TOPICS_SEEN, c, dup, <<now[k], topic>>)
                /\ accepted' = IF dup THEN accepted
                               ELSE accepted \cup {[c |-> c, n |-> callno[k], t |-> now[k],
                                                    e |-> e, uid |-> uid, topic |-> topic]}
                /\ idx' = [idx EXCEPT ![k] = @ + 1]
                /\ pc' = [pc EXCEPT ![k] = IF over THEN AfterLoop(fr) ELSE "dedup"]
    /\ UNCHANGED <<clock, ticks, host, city_key, limit, now, ids_seen,
                   topics_seen, pending, all_entries, result, got, callno,
                   ncalls, probes>>

\* Lines 95-96: the accepted entries are summarised in order and returned.
\* The awaits of the comprehension touch only locals; they are one step.
Summarise(k) ==
    /\ pc[k] = "summarise"
    /\ result' = [result EXCEPT ![k] = Summaries(fresh[k], Config[city_key[k]].lang)]
    /\ pc' = [pc EXCEPT ![k] = "done"]
    /\ UNCHANGED <<clock, ticks, host, SEEN_IDS, TOPICS_SEEN, city_key, limit,
                   now, ids_seen, topics_seen, pending, all_entries, idx, fresh,
                   got, keys, callno, accepted, ncalls, nfailed, probes>>

\* The caller has its list, or its exception; the frame is gone.
Return(k) ==
    /\ pc[k] \in {"done", "raised", "key_raised"}
    /\ pc' = [pc EXCEPT ![k] = "idle"]
    /\ city_key' = [city_key EXCEPT ![k] = "A"]
    /\ limit' = [limit EXCEPT ![k] = 0]
    /\ now' = [now EXCEPT ![k] = 0]
    /\ ids_seen' = [ids_seen EXCEPT ![k] = {}]
    /\ topics_seen' = [topics_seen EXCEPT ![k] = {}]
    /\ pending' = [pending EXCEPT ![k] = {}]
    /\ all_entries' = [all_entries EXCEPT ![k] = <<>>]
    /\ idx' = [idx EXCEPT ![k] = 1]
    /\ fresh' = [fresh EXCEPT ![k] = <<>>]
    /\ result' = [result EXCEPT ![k] = <<>>]
    /\ got' = [got EXCEPT ![k] = <<>>]
    /\ keys' = [keys EXCEPT ![k] = <<>>]
    /\ callno' = [callno EXCEPT ![k] = 0]
    /\ UNCHANGED <<clock, ticks, host, SEEN_IDS, TOPICS_SEEN, accepted, ncalls, nfailed, probes>>

\* the steps of the clock around the edge of the window
Deltas == {WINDOW - 1, WINDOW, WINDOW + 1}

Tick == \E d \in Deltas : Advance(d)

Idle == \A k \in Slots : pc[k] = "idle"

\* the limit arguments tried: the small ones, and the default
Limits == 0..MaxLimit \cup {DEFAULT_LIMIT}

\* Calls that do not overlap: the next call starts when the last has returned.
Next ==
    \/ Tick
    \/ \E c \in Channels, lim \in Limits : Idle /\ Start(1, c, lim)
    \/ \E u \in Feeds : \E r \in FeedResults(u) : FetchDone(1, u, r)
    \/ \E u \in Feeds : FetchFail(1, u)
    \/ \E ok \in BOOLEAN : DedupStep(1, ok)
    \/ Summarise(1)
    \/ Return(1)

\* The pipeline is run on a host whose local zone is UTC, where time.mktime
\* is exact; the recency probe below runs _is_recent on the other hosts too.
InitPipeline == Init /\ host = 0

Spec == InitPipeline /\ [][Next]_vars


(***************************************************************************)
(* _is_recent on its own: the clock advances and the function is applied   *)
(* to an entry and a zone, at the current instant, on the current host.    *)
(***************************************************************************)
ProbeTimes == {<<>>, <<T0 - HOUR>>, <<T0 - HOURS * HOUR>>,
               <<T0 - HOURS * HOUR - 1>>, <<T0 - (HOURS + 1) * HOUR>>}

ProbeEntries ==
    {Entry("p", "", <<"P">>, "", pub, upd, <<"9">>) :
        pub \in ProbeTimes, upd \in {<<>>, <<T0 - HOUR>>}}

Probe(e, zone) ==
    /\ probe' = [set |-> TRUE, entry |-> e, zone |-> zone, t |-> clock,
                 recent |-> IsRecent(e, zone, HOURS, clock, host)]
    /\ UNCHANGED <<clock, ticks, host, SEEN_IDS, TOPICS_SEEN, callvars,
                   accepted, ncalls, nfailed, kprobe, tiny>>

\* the steps of the clock for the probe: a second, an hour, a day
ProbeDeltas == {1, HOUR, WINDOW}

NextRecent ==
    \/ \E d \in ProbeDeltas : Advance(d)
    \/ \E e \in ProbeEntries, zone \in Zones : Probe(e, zone)

SpecRecent == Init /\ [][NextRecent]_vars


(***************************************************************************)
(* _topic_key on its own, with the embedding call failing: the function is *)
(* applied to two entries.  The titles are short ones, and ones that reach *)
(* to the 64th character and one or two beyond it.                         *)
(***************************************************************************)
Pad == [i \in 1..(KEYLEN - 1) |-> "a"]

KeyTitles ==
    {<<>>, None, <<"F">>, <<"f">>, <<"R">>, Pad,
     Pad \o <<"F">>, Pad \o <<"f">>, Pad \o <<"R">>,
     Pad \o <<"F", "S">>, Pad \o <<"f", "B">>}

KeyEntries ==
    {Entry("k", "", t, s, <<T0>>, <<>>, <<"8">>) :
        t \in KeyTitles, s \in {"s1", "s2"}}

KeyProbe(e1, e2) ==
    /\ kprobe' = [set |-> TRUE, e1 |-> e1, e2 |-> e2,
                  out1 |-> TopicKeyCall(e1, FALSE),
                  out2 |-> TopicKeyCall(e2, FALSE)]
    /\ UNCHANGED <<clock, ticks, host, SEEN_IDS, TOPICS_SEEN, callvars,
                   accepted, ncalls, nfailed, probe, tiny>>

NextKey == \E e1, e2 \in KeyEntries : KeyProbe(e1, e2)

SpecKey == InitPipeline /\ [][NextKey]_vars


(***************************************************************************)
(* get_latest_items over feeds that carry entries without a title: calls   *)
(* that do not overlap, each with the default limit.                       *)
(***************************************************************************)
NextUntitled ==
    \/ \E c \in Channels : Idle /\ Start(1, c, DEFAULT_LIMIT)
    \/ \E u \in Feeds : \E r \in UntitledResults(u) : FetchDone(1, u, r)
    \/ \E ok \in BOOLEAN : DedupStep(1, ok)
    \/ Summarise(1)
    \/ Return(1)

SpecUntitled == InitPipeline /\ [][NextUntitled]_vars


(***************************************************************************)
(* utils.tiny(url, retries): one action for the call up to its first       *)
(* request, one for each request and what follows it up to the next.       *)
(* A url is a sequence of characters.                                      *)
(***************************************************************************)
Url(n) == [i \in 1..n |-> "u"]

\* the urls tried: around the length below which tiny does nothing
Urls == {Url(MINLEN - 1), Url(MINLEN), Url(MINLEN + 1)}

\* the retries arguments tried
Retries == (-1)..MaxRetries \cup {DEFAULT_RETRIES}

\* the short link of a response that carries one
TINY == <<"t">>

\* What one request can come to: an exception of the session or the post
\* (connection error, timeout), or a response with a status and a body.  The
\* body is JSON with data.tiny_url ("tiny"), JSON without it ("empty"), or
\* something resp.json() or the two .get calls raise on ("malformed").
Responses ==
    {[raised |-> TRUE, status |-> 0, body |-> "none"]}
    \cup {[raised |-> FALSE, status |-> st, body |-> b] :
              st \in {STATUS_OK, 500}, b \in {"tiny", "empty", "malformed"}}

\* the request leaves the try block through except Exception
Failed(resp) ==
    resp.raised \/ (resp.status = STATUS_OK /\ resp.body = "malformed")

\* the request makes tiny return from inside the loop (line 39)
Returns(resp) ==
    ~resp.raised /\ resp.status = STATUS_OK /\ resp.body # "malformed"

\* data.get("data", {}).get("tiny_url", url)
TinyUrlOf(resp, url) == IF resp.body = "tiny" THEN TINY ELSE url

\* as LoopEnds, with one iteration more (range(retries + 1) counted from 0)
LoopEndsLate(attempt, retries) == attempt > retries

\* after the iteration attempt, range(1, retries + 1) is exhausted; the break
\* of line 44 is taken in that same iteration
LoopEnds(attempt, retries) == attempt >= retries

\* Lines 20-33: the two early returns, and the first iteration if there is one.
TinyCall(url, retries, has_key) ==
    /\ tiny.pc \in {"idle", "returned"}
    /\ tiny' = IF ~has_key \/ Len(url) < MINLEN \/ LoopEnds(0, retries)
               THEN [pc |-> "returned", url |-> url, retries |-> retries,
                     has_key |-> has_key, attempt |-> 0, requests |-> 0,
                     log |-> <<>>, result |-> url]
               ELSE [pc |-> "running", url |-> url, retries |-> retries,
                     has_key |-> has_key, attempt |-> 1, requests |-> 0,
                     log |-> <<>>, result |-> <<>>]
    /\ UNCHANGED <<clock, ticks, host, SEEN_IDS, TOPICS_SEEN, callvars,
                   accepted, ncalls, nfailed, probe, kprobe>>

\* Lines 34-46, one iteration: the request is made and comes to resp.  A
\* usable answer is returned; otherwise the loop goes on (after the sleep,
\* when the request failed) or ends, and then the url itself is returned.
TinyAttempt(resp) ==
    /\ tiny.pc = "running"
    /\ LET done == Returns(resp) \/ LoopEnds(tiny.attempt, tiny.retries)
       IN  tiny' = [tiny EXCEPT
                      !.requests = @ + 1,
                      !.log = Append(@, resp),
                      !.attempt = IF done THEN @ ELSE @ + 1,
                      !.pc = IF done THEN "returned" ELSE "running",
                      !.result = IF Returns(resp) THEN TinyUrlOf(resp, tiny.url)
                                 ELSE IF done THEN tiny.url ELSE @]
    /\ UNCHANGED <<clock, ticks, host, SEEN_IDS, TOPICS_SEEN, callvars,
                   accepted, ncalls, nfailed, probe, kprobe>>

TinyStep == \E resp \in Responses : TinyAttempt(resp)

NextTiny ==
    \/ \E url \in Urls, n \in Retries, has_key \in BOOLEAN : TinyCall(url, n, has_key)
    \/ TinyStep

\* every request is answered or times out (timeout=timeout), and the event
\* loop resumes the coroutine: a running call takes its next step
SpecTiny == InitPipeline /\ [][NextTiny]_vars /\ WF_vars(TinyStep)


(***************************************************************************)
(* Two get_latest_items calls on the same city that overlap: each call     *)
(* takes its steps between its own awaits, in any interleaving with the    *)
(* other's, and hours may pass while a call is suspended.                  *)
(***************************************************************************)
\* Time passes, by d seconds, whatever the calls are doing.
Elapse(d) ==
    /\ ticks < MaxTicks
    /\ clock' = clock + d
    /\ ticks' = ticks + 1
    /\ UNCHANGED <<host, SEEN_IDS, TOPICS_SEEN, callvars, accepted, ncalls, nfailed, probes>>

\* the steps of the clock between the start of one call and of the other
OverlapDeltas == {WINDOW, WINDOW + 1}

\* The call of slot 2 starts while that of slot 1 is under way.
NextOverlap ==
    \/ \E d \in OverlapDeltas : Elapse(d)
    \/ Start(1, "A", DEFAULT_LIMIT)
    \/ pc[1] # "idle" /\ Start(2, "A", DEFAULT_LIMIT)
    \/ \E k \in Slots, u \in Feeds : \E r \in FeedResults(u) : FetchDone(k, u, r)
    \/ \E k \in Slots : DedupStep(k, TRUE)
    \/ \E k \in Slots : Summarise(k)
    \/ \E k \in Slots : Return(k)

SpecOverlap == InitPipeline /\ [][NextOverlap]_vars


(***************************************************************************)
(* Properties                                                              *)
(***************************************************************************)
\* the acceptances of calls on the city of call k that started before it
RecordedBefore(k) ==
    {h \in accepted : h.c = city_key[k] /\ h.n < callno[k]}

\* the acceptances of call k itself
AcceptedBy(k) == {h \in accepted : h.n = callno[k]}

SameIdentity(h1, h2) == h1.uid # "" /\ h1.uid = h2.uid

\* C1: within one call the accepted entries are pairwise distinct by
\* identity and by topic key: of two entries of the pool that share a
\* non-empty identity, or a topic key, at most one is accepted.
C1_DistinctWithinCall ==
    \A h1, h2 \in accepted :
        (h1.n = h2.n /\ h1 # h2) =>
            (~SameIdentity(h1, h2) /\ h1.topic # h2.topic)

\* C2: no exception escapes get_latest_items when a fetch fails.
C2_NoExceptionEscapes == \A k \in Slots : pc[k] # "raised"

\* C3: once a call that started at t1 has accepted an entry, no later call
\* on the same city that starts at t2, t1 <= t2 < t1 + 24h, accepts an entry
\* with the same non-empty identity or the same topic key.
C3_NoRepeatWithinWindow ==
    \A h1, h2 \in accepted :
        (h1.c = h2.c /\ h1.n < h2.n /\ h1.t <= h2.t /\ h2.t < h1.t + WINDOW) =>
            (~SameIdentity(h1, h2) /\ h1.topic # h2.topic)

\* a later call, started a day less a second after an acceptance, has
\* examined and skipped an entry with the accepted identity
C3_Witness ==
    \E k \in Slots : \E h \in RecordedBefore(k) : \E i \in 1..(idx[k] - 1) :
        /\ pc[k] # "idle"
        /\ now[k] = h.t + WINDOW - 1
        /\ i <= Len(all_entries[k])
        /\ Uid(ENTRY[all_entries[k][i]]) = h.uid
        /\ h.uid # ""
        /\ \A j \in 1..Len(fresh[k]) : fresh[k][j] # all_entries[k][i]


\* the instants at which an identity, or a topic key, was recorded for the
\* city of call k before the call
IdTimes(k, v) == {h.t : h \in {g \in RecordedBefore(k) : g.uid = v}}

TopicTimes(k, v) == {h.t : h \in {g \in RecordedBefore(k) : g.topic = v}}

IdsRecorded(k) == {h.uid : h \in RecordedBefore(k)} \ {""}

TopicsRecorded(k) == {h.topic : h \in RecordedBefore(k)}

\* C4, as claimed: a record inserted at T is in the membership sets of a call
\* started at now exactly when now < T + 24h; from now = T + 24h on it is not.
C4_AbsentFromWindowEnd ==
    \A k \in Slots : pc[k] # "idle" =>
        /\ \A v \in IdsRecorded(k) :
              v \in ids_seen[k] <=> \E t \in IdTimes(k, v) : now[k] < t + WINDOW
        /\ \A v \in TopicsRecorded(k) :
              v \in topics_seen[k] <=> \E t \in TopicTimes(k, v) : now[k] < t + WINDOW

\* C4, amended: a record inserted at T is in the membership sets of a call
\* started at now exactly when now <= T + 24h: the record whose age is 24h
\* to the second is kept, and any older one is gone.
C4_AbsentAfterWindow ==
    \A k \in Slots : pc[k] # "idle" =>
        /\ \A v \in IdsRecorded(k) :
              v \in ids_seen[k] <=> \E t \in IdTimes(k, v) : now[k] <= t + WINDOW
        /\ \A v \in TopicsRecorded(k) :
              v \in topics_seen[k] <=> \E t \in TopicTimes(k, v) : now[k] <= t + WINDOW

\* a call started exactly 24h after an identity and a topic key were
\* recorded has both in its membership sets
C4_Witness ==
    \E k \in Slots : \E h \in RecordedBefore(k) :
        /\ pc[k] # "idle"
        /\ now[k] = h.t + WINDOW
        /\ h.uid \in ids_seen[k]
        /\ h.topic \in topics_seen[k]

\* C5: the call returns at most limit summaries, for every limit >= 0.
C5_AtMostLimit ==
    \A k \in Slots : pc[k] = "done" => Len(result[k]) <= limit[k]

\* the topic keys an entry can be given
PossibleKeys(e) == {TopicKey(ENTRY[e], ok) : ok \in BOOLEAN}

\* the pool of call k holds no two duplicates and nothing the cache suppresses
PoolAllFresh(k) ==
    LET pool == all_entries[k]
    IN  /\ \A i, j \in 1..Len(pool) : i # j =>
              /\ Uid(ENTRY[pool[i]]) = "" \/ Uid(ENTRY[pool[i]]) # Uid(ENTRY[pool[j]])
              /\ PossibleKeys(pool[i]) \cap PossibleKeys(pool[j]) = {}
        /\ \A i \in 1..Len(pool) :
              /\ Uid(ENTRY[pool[i]]) \notin ids_seen[k]
              /\ PossibleKeys(pool[i]) \cap topics_seen[k] = {}

\* e1 was published later than e2; an entry without published_parsed counts
\* as the oldest
PublishedLater(e1, e2) ==
    /\ ENTRY[e1].published_parsed # <<>>
    /\ \/ ENTRY[e2].published_parsed = <<>>
       \/ ENTRY[e1].published_parsed[1] > ENTRY[e2].published_parsed[1]

InSeq(x, s) == \E i \in 1..Len(s) : s[i] = x

\* C6: from a pool of more than limit entries (limit >= 1), none a duplicate
\* of another, none suppressed by the cache, exactly limit are returned, and
\* no entry left out was published later than one returned.
C6_LimitMostRecent ==
    \A k \in Slots :
        (/\ pc[k] \in {"summarise", "done"}
         /\ limit[k] >= 1
         /\ Len(all_entries[k]) > limit[k]
         /\ PoolAllFresh(k)) =>
            /\ Len(fresh[k]) = limit[k]
            /\ pc[k] = "done" => Len(result[k]) = limit[k]
            /\ \A i \in 1..Len(all_entries[k]) : \A j \in 1..Len(fresh[k]) :
                  ~InSeq(all_entries[k][i], fresh[k]) =>
                      ~PublishedLater(all_entries[k][i], fresh[k][j])

\* a call with limit 1 has returned one of three fresh entries
C6_Witness ==
    \E k \in Slots :
        /\ pc[k] = "done"
        /\ limit[k] = 1
        /\ Len(all_entries[k]) = 3
        /\ PoolAllFresh(k)
        /\ Len(result[k]) = 1


\* the topic key that call k gave the entry e of its pool
KeyGiven(k, e) ==
    keys[k][CHOOSE i \in 1..Len(all_entries[k]) : all_entries[k][i] = e]

\* lines 82-93 run on the pool s from position i with fr accepted so far, every
\* entry given the topic key it was given in call k
RECURSIVE RunLoop(_, _, _, _)
RunLoop(k, s, i, fr) ==
    IF i > Len(s) THEN fr
    ELSE IF IsDuplicate(Uid(ENTRY[s[i]]), KeyGiven(k, s[i]), ids_seen[k], topics_seen[k])
         THEN RunLoop(k, s, i + 1, fr)
         ELSE IF LimitReached(Append(fr, s[i]), limit[k])
              THEN Append(fr, s[i])
              ELSE RunLoop(k, s, i + 1, Append(fr, s[i]))

\* lines 73-80 with the fetches of call k completing in the order p
RECURSIVE MergeInOrder(_, _, _)
MergeInOrder(k, p, i) ==
    IF i > Len(got[k]) THEN <<>>
    ELSE got[k][p[i]][2] \o MergeInOrder(k, p, i + 1)

\* C7: what a call accepts, and in what order, is the same whatever the
\* order in which its fetches complete.  Stated of the calls that examined
\* their whole pool: any other completion order of the same fetch results
\* would have led to the same accepted entries in the same order.
C7_OrderIndependent ==
    \A k \in Slots :
        (/\ pc[k] \in {"summarise", "done"}
         /\ all_entries[k] # <<>>
         /\ idx[k] = Len(all_entries[k]) + 1) =>
            \A p \in Permutations(1..Len(got[k])) :
                RunLoop(k, SortEntries(MergeInOrder(k, p, 1)), 1, <<>>) = fresh[k]

\* the call of slot k takes this step
StepOf(k) == <<pc[k], pending[k], idx[k]>>' # <<pc[k], pending[k], idx[k]>>

\* the city of the call of slot k that takes this step
CityOfStep(k) == IF pc[k] = "idle" THEN city_key'[k] ELSE city_key[k]

\* this step of call k examines an entry and skips it
Skips(k) == pc[k] = "dedup" /\ idx'[k] = idx[k] + 1 /\ fresh'[k] = fresh[k]

\* C8: a step of a call for one city leaves the identity and topic records
\* of every other city as they are, and an entry is skipped only for an
\* identity or a topic key that was recorded for the call's own city.
C8_ChannelsDisjoint ==
    [][\A k \in Slots : StepOf(k) =>
          /\ \A c \in Channels \ {CityOfStep(k)} :
                /\ SEEN_IDS'[c] = SEEN_IDS[c]
                /\ TOPICS_SEEN'[c] = TOPICS_SEEN[c]
          /\ Skips(k) =>
                \E h \in RecordedBefore(k) :
                    \/ h.uid # "" /\ h.uid = Uid(ENTRY[all_entries[k][idx[k]]])
                    \/ h.topic = keys'[k][idx[k]]]_vars

\* an identity recorded for city A less than 24h ago is accepted in a call
\* for city B, while A's records stay in place
C8_Witness ==
    \E h1, h2 \in accepted :
        /\ h1.c = "A" /\ h2.c = "B"
        /\ h1.n < h2.n
        /\ h1.uid # "" /\ h1.uid = h2.uid
        /\ h2.t < h1.t + WINDOW
        /\ \E i \in 1..Len(SEEN_IDS["A"]) : SEEN_IDS["A"][i] = <<h1.t, h1.uid>>

\* the entry's timestamp, as _is_recent picks it
TimestampOf(e) == Or(e.published_parsed, e.updated_parsed, <<>>)

\* C9: _is_recent is false for an entry without a timestamp, and otherwise
\* true exactly when the real time from the entry's timestamp to now is at
\* most 24 hours, whatever the zone.
C9_RecentIffWithin24h ==
    probe.set =>
        (probe.recent <=>
            /\ TimestampOf(probe.entry) # <<>>
            /\ probe.t - TimestampOf(probe.entry)[1] <= HOURS * HOUR)

\* C10: once _is_recent has been false for an entry in a zone, it is false
\* at every later instant.
C10_NeverRecentAgain ==
    [][(/\ probe.set /\ probe'.set
        /\ probe'.entry = probe.entry /\ probe'.zone = probe.zone
        /\ ~probe.recent) => ~probe'.recent]_vars

Min(a, b) == IF a < b THEN a ELSE b

\* the same letter, in either case
SameLetter(a, b) ==
    a = b \/ {a, b} \in {{"F", "f"}, {"R", "r"}, {"B", "b"}, {"S", "s"}}

\* two titles are the same, case aside, once each is cut to n characters
SameUpToCase(t1, t2, n) ==
    /\ Min(Len(t1), n) = Min(Len(t2), n)
    /\ \A i \in 1..Min(Len(t1), n) : SameLetter(t1[i], t2[i])

\* C11: with the embedding call failing, two entries that are both given a
\* key are given the same key exactly when their titles are the same, case
\* aside, within the first 64 characters; the summaries play no part.
C11_FallbackKeyByTitle ==
    (kprobe.set /\ ~kprobe.out1.raised /\ ~kprobe.out2.raised) =>
        (kprobe.out1.key = kprobe.out2.key
            <=> SameUpToCase(kprobe.e1.title, kprobe.e2.title, KEYLEN))

\* two entries whose titles differ in case within the bound and in a letter
\* beyond it, and whose summaries differ, have been given the same key
C11_Witness ==
    /\ kprobe.set /\ ~kprobe.out1.raised /\ ~kprobe.out2.raised
    /\ Len(kprobe.e1.title) > KEYLEN /\ Len(kprobe.e2.title) > KEYLEN
    /\ kprobe.e1.title[KEYLEN] # kprobe.e2.title[KEYLEN]
    /\ kprobe.e1.title[KEYLEN + 1] # kprobe.e2.title[KEYLEN + 1]
    /\ kprobe.e1.summary # kprobe.e2.summary
    /\ kprobe.out1.key = kprobe.out2.key

\* C12: no exception of the fingerprinting ends a get_latest_items call,
\* whatever the entry (its title or summary missing or None included) and
\* whether or not the embedding call fails.
C12_FingerprintNeverAborts == \A k \in Slots : pc[k] # "key_raised"

\* C13: a call returns one summary for each entry it accepted, in the order
\* of acceptance, and that order is newest first: from one position to the
\* next the publish timestamp does not grow, and an entry without a publish
\* timestamp comes after every entry that has one.
C13_NewestFirst ==
    \A k \in Slots : pc[k] = "done" =>
        /\ Len(result[k]) = Len(fresh[k])
        /\ Len(fresh[k]) = Cardinality(AcceptedBy(k))
        /\ \A i \in 1..Len(fresh[k]) :
              /\ result[k][i] = <<fresh[k][i], Config[city_key[k]].lang>>
              /\ \E h \in AcceptedBy(k) : h.e = fresh[k][i]
        /\ \A i \in 1..(Len(fresh[k]) - 1) :
              ~PublishedLater(fresh[k][i + 1], fresh[k][i])

\* a call has returned three summaries: entries with different publish
\* timestamps first, an entry that has only updated_parsed last
C13_Witness ==
    \E k \in Slots :
        /\ pc[k] = "done"
        /\ Len(result[k]) = 3
        /\ ENTRY[result[k][1][1]].published_parsed # <<>>
        /\ ENTRY[result[k][2][1]].published_parsed # <<>>
        /\ SortKey(ENTRY[result[k][1][1]]) > SortKey(ENTRY[result[k][2][1]])
        /\ ENTRY[result[k][3][1]].published_parsed = <<>>
        /\ ENTRY[result[k][3][1]].updated_parsed # <<>>

\* the request failed, by exception or by a status other than 200
FailedAttempt(resp) == Failed(resp) \/ (~resp.raised /\ resp.status # STATUS_OK)

\* what holds of a tiny(url, retries=n) call at every moment
TinyBounded ==
    tiny.pc # "idle" =>
        /\ tiny.requests <= (IF tiny.retries > 0 THEN tiny.retries ELSE 0)
        /\ tiny.requests = Len(tiny.log)
        /\ (~tiny.has_key \/ Len(tiny.url) < MINLEN) => tiny.requests = 0
        /\ tiny.pc \in {"running", "returned"}
        /\ tiny.pc = "returned" =>
              /\ \/ tiny.result = tiny.url
                 \/ \E i \in 1..Len(tiny.log) :
                       /\ ~tiny.log[i].raised
                       /\ tiny.log[i].status = STATUS_OK
                       /\ tiny.log[i].body = "tiny"
                       /\ tiny.result = TINY
              /\ (\A i \in 1..Len(tiny.log) : FailedAttempt(tiny.log[i]))
                    => tiny.result = tiny.url

HasIdentity(e) == ENTRY[e].id # "" \/ ENTRY[e].link # ""

\* the acceptances of earlier calls on the city of call k that the prune of
\* call k leaves in place
Survivors(k) == {h \in RecordedBefore(k) : h.t >= now[k] - WINDOW}

\* C15: while a call runs and when it has returned, each list of its city
\* is what survived its prune followed by one record (now, key), or
\* (now, id), for each entry the call has accepted, in the order of
\* acceptance, the identity record only for an entry that has an id or a
\* link; an entry that was skipped has added nothing.
C15_OnlyAcceptedRecorded ==
    \A k \in Slots : pc[k] # "idle" =>
        LET c == city_key[k]
            fr == fresh[k]
            withId == SelectSeq(fr, HasIdentity)
            T == TOPICS_SEEN[c]
            I == SEEN_IDS[c]
            oldT == Len(T) - Len(fr)
            oldI == Len(I) - Len(withId)
        IN  /\ oldT = Cardinality(Survivors(k))
            /\ oldI = Cardinality({h \in Survivors(k) : h.uid # ""})
            /\ \A i \in 1..oldT : \E h \in Survivors(k) : T[i] = <<h.t, h.topic>>
            /\ \A i \in 1..oldI : \E h \in Survivors(k) : I[i] = <<h.t, h.uid>>
            /\ \A i \in 1..Len(fr) : T[oldT + i] = <<now[k], KeyGiven(k, fr[i])>>
            /\ \A i \in 1..Len(withId) :
                  I[oldI + i] = <<now[k], Or(ENTRY[withId[i]].id, ENTRY[withId[i]].link, "")>>

\* a call on a city with records has returned after accepting an entry,
\* skipping one for its identity and skipping one for its topic key alone
C15_Witness ==
    \E k \in Slots :
        /\ pc[k] = "done"
        /\ fresh[k] # <<>>
        /\ Survivors(k) # {}
        /\ \E i, j \in 1..Len(all_entries[k]) :
              /\ i < idx[k] /\ j < idx[k]
              /\ ~InSeq(all_entries[k][i], fresh[k])
              /\ Uid(ENTRY[all_entries[k][i]]) \in ids_seen[k]
              /\ ~InSeq(all_entries[k][j], fresh[k])
              /\ Uid(ENTRY[all_entries[k][j]]) \notin ids_seen[k]
              /\ keys[k][j] \in topics_seen[k]

\* the entries call k has examined so far, as positions of its pool
Examined(k) == 1..Min(idx[k] - 1, Len(all_entries[k]))

\* C16: an entry with neither id nor link is accepted exactly when its topic
\* key is not in the call's topic set, whatever the identity set holds; and
\* every identity record is the id, or else the link, of an accepted entry:
\* none stands for an entry that has neither.
C16_NoSyntheticIdentity ==
    /\ \A k \in Slots : \A i \in Examined(k) :
          (pc[k] # "idle" /\ ~HasIdentity(all_entries[k][i])) =>
              (InSeq(all_entries[k][i], fresh[k]) <=> keys[k][i] \notin topics_seen[k])
    /\ \A c \in Channels : \A i \in 1..Len(SEEN_IDS[c]) :
          \E h \in accepted :
              /\ h.c = c
              /\ h.t = SEEN_IDS[c][i][1]
              /\ HasIdentity(h.e)
              /\ SEEN_IDS[c][i][2] = Or(ENTRY[h.e].id, ENTRY[h.e].link, "")
    /\ \A c \in Channels :
          Len(SEEN_IDS[c]) <= Cardinality({h \in accepted : h.c = c /\ HasIdentity(h.e)})

\* an entry with neither id nor link has been accepted by one call, which
\* left the identity list without a record for it, and skipped for its topic
\* key by the next call, whose identity set was not empty
C16_Witness ==
    \E k \in Slots : \E i \in Examined(k) : \E h \in RecordedBefore(k) :
        /\ pc[k] # "idle"
        /\ ~HasIdentity(all_entries[k][i])
        /\ h.e = all_entries[k][i]
        /\ ~InSeq(all_entries[k][i], fresh[k])
        /\ ids_seen[k] # {}
        /\ \A j \in 1..Len(SEEN_IDS[city_key[k]]) : SEEN_IDS[city_key[k]][j][2] # ""

\* every fetch of call k has completed and handed over its entries
FanInDone(k) ==
    /\ pending[k] = {}
    /\ {got[k][i][1] : i \in 1..Len(got[k])} = Config[city_key[k]].feeds

\* this step of call k prunes the lists and builds the membership sets
\* (lines 64-69), or decides about an entry and records it (lines 84-91)
CacheAccess(k) ==
    \/ pc[k] = "idle" /\ pc'[k] # "idle"
    \/ pc[k] = "dedup" /\ idx'[k] # idx[k]

Overlapping(k1, k2) ==
    /\ k1 # k2
    /\ pc[k1] # "idle" /\ pc[k2] # "idle"
    /\ city_key[k1] = city_key[k2]

\* C18: of two calls that run at the same time on the same city, started
\* less than 24h apart, no identity and no topic key is accepted by both.
C18_AtMostOnceOverlapping ==
    \A k1, k2 \in Slots : Overlapping(k1, k2) =>
        \A h1 \in AcceptedBy(k1), h2 \in AcceptedBy(k2) :
            (h1.t < h2.t + WINDOW /\ h2.t < h1.t + WINDOW) =>
                (~SameIdentity(h1, h2) /\ h1.topic # h2.topic)

Max(a, b) == IF a > b THEN a ELSE b

\* the record is in the list
Holds(records, r) == \E i \in 1..Len(records) : records[i] = r

\* C19: when two calls on the same city that overlapped have both finished,
\* every record either of them appended, before or after the other's prune,
\* whose timestamp is within 24h of the later start, is in the city's lists.
C19_NoRecordLost ==
    \A k1, k2 \in Slots :
        (Overlapping(k1, k2) /\ pc[k1] = "done" /\ pc[k2] = "done") =>
            \A h \in AcceptedBy(k1) \cup AcceptedBy(k2) :
                h.t >= Max(now[k1], now[k2]) - WINDOW =>
                    /\ Holds(TOPICS_SEEN[h.c], <<h.t, h.topic>>)
                    /\ h.uid # "" => Holds(SEEN_IDS[h.c], <<h.t, h.uid>>)

\* both calls have finished; the second started 24h after the first, when
\* the first had recorded one acceptance and not yet another: the second's
\* membership sets hold the one and not the other, and both are in the lists
C19_Witness ==
    \E k1, k2 \in Slots : \E h1, h2 \in AcceptedBy(k1) :
        /\ Overlapping(k1, k2) /\ pc[k1] = "done" /\ pc[k2] = "done"
        /\ now[k2] = now[k1] + WINDOW
        /\ h1.topic \in topics_seen[k2]
        /\ h2.topic \notin topics_seen[k2]
        /\ Holds(TOPICS_SEEN[h1.c], <<h1.t, h1.topic>>)
        /\ Holds(TOPICS_SEEN[h2.c], <<h2.t, h2.topic>>)
        /\ h1.uid # "" /\ Holds(SEEN_IDS[h1.c], <<h1.t, h1.uid>>)

====
